---- MODULE Spec2Model ----
\* slog-error-chain: adapters that report the full chain of causes of a
\* std::error::Error, as one ": "-joined string (InlineErrorChain), as an
\* array of strings (ArrayErrorChain) or as an owned snapshot of the strings
\* (OwnedErrorChain).
\*
\* Strings are TLA+ strings; "\o" is concatenation. An error is an index into
\* the two sequences display / source (the Error input contract: Display and
\* Error::source). Every function of the crate is an operator that computes
\* its result the way the code does (each `while let` loop is a RECURSIVE
\* operator that carries the loop's variables), and every public entry point
\* is one action that records the call and what it returned.
EXTENDS Naturals, Sequences, FiniteSets

\* ------------------------------------------------------------------ bounds

\* longest chain of errors (the crate's tests use chains of 1, 2 and 3)
MaxErr == 3

\* how often the caller changes the error after it was built
MaxMutations == 1

\* how often the caller makes the same call in a row
MaxRepeat == 2

\* iterations a `while let` loop is followed before the call is reported
\* as still running; an acyclic chain of MaxErr errors needs MaxErr - 1
Fuel == 2 * MaxErr

\* a destination accepts this many writes at most; 2 * MaxErr - 1 pieces
\* are written for the longest inline string, MaxErr + 2 serde calls are
\* made for the longest array
WriteLimit == 2 * MaxErr + 1

\* the budget of a destination that never refuses a write (a String, a
\* Vec): more than a loop followed for Fuel iterations writes
Unbounded == 2 * Fuel + 2

\* ------------------------------------------------------------- vocabulary

\* Option::None of Error::source()
None == 0

\* the error every call is made on (the head of the chain)
Root == 1

\* the display strings of the errors (those of the crate's tests)
Msgs == {"test error", "error a", "error b"}

\* keys a caller passes to Value::serialize / serialize_fallback
Keys == {"my-key", "unused"}

\* what a slog::Serializer does with emit_serde: "nested" serializes the
\* value with serde, "plain" keeps slog's default and asks the value for
\* its serialize_fallback
SinkModes == {"plain", "nested"}

\* the failure a sink reports when its destination refuses a write
ErrVals == {"Io", "Other"}

\* a sink: its mode, the number of writes its destination accepts and the
\* failure it reports after that
Sinks == [mode : SinkModes, budget : (0..WriteLimit) \cup {Unbounded}, errval : ErrVals]

\* the destination of to_string(): a String, which accepts every write
StringSink == [mode |-> "plain", budget |-> Unbounded, errval |-> "Other"]

VARIABLES
    display,    \* display[e]: what `{}` prints for error e
    source,     \* source[e]: Error::source() of e, None at the end
    live,       \* the error has not been dropped
    mutations,  \* changes made to the error so far
    chain,      \* the OwnedErrorChain the caller holds, <<>> or <<c>>
    chainAt,    \* the display strings of the chain when `chain` was built
    sent,       \* the Box<dyn SerdeValue + Send> handed to the worker
    sentAt,     \* the display strings of the chain when `sent` was built
    call,       \* the last call made: who, what, on which adapter, how
    ret         \* what that call returned and what its destination received

vars == <<display, source, live, mutations, chain, chainAt, sent, sentAt, call, ret>>

heap == <<display, source, live, mutations>>

\* ---------------------------------------------------- std::fmt::Formatter

\* a Formatter over a destination that accepts `budget` more writes
NewFormatter(budget) ==
    [buf |-> "", pieces |-> <<>>, budget |-> budget, err |-> FALSE]

\* Formatter::write_str: append s, or fail when the destination is full
WriteStr(w, s) ==
    IF w.budget = 0
    THEN [w EXCEPT !.err = TRUE]
    ELSE [w EXCEPT !.buf = @ \o s, !.pieces = Append(@, s), !.budget = @ - 1]

\* the result of a fmt call: res is "Ok", "FmtError" or "Running" (the loop
\* has not ended after Fuel iterations); visited lists the errors whose
\* source() was taken, in order
FmtResult(res, w, seen) == [res |-> res, f |-> w, visited |-> seen]

\* ------------------------------------------------------- InlineErrorChain

\* the separator of InlineErrorChain's Display
Sep == ": "

\* InlineErrorChain::new
InlineErrorChainNew(err) == [ty |-> "InlineErrorChain", err |-> err]

\* a slip of the loop below: `if let` for `while let`, so that only the
\* direct cause is written
InlineFmtIfLet(cause, w, seen, fuel) ==
    IF cause = None THEN FmtResult("Ok", w, seen)
    ELSE LET w1 == WriteStr(w, Sep) IN
         IF w1.err THEN FmtResult("FmtError", w1, seen)
         ELSE LET w2 == WriteStr(w1, display[cause]) IN
              FmtResult(IF w2.err THEN "FmtError" ELSE "Ok", w2, Append(seen, cause))

\* a change of the loop below: it stops at a cause it has already written
\* (cycle detection)
RECURSIVE InlineFmtWhileGuarded(_, _, _, _)
InlineFmtWhileGuarded(cause, w, seen, fuel) ==
    IF cause = None \/ \E i \in 1..Len(seen) : seen[i] = cause
    THEN FmtResult("Ok", w, seen)
    ELSE IF fuel = 0 THEN FmtResult("Running", w, seen)
    ELSE LET w1 == WriteStr(w, Sep) IN
         IF w1.err THEN FmtResult("FmtError", w1, seen)
         ELSE LET w2 == WriteStr(w1, display[cause]) IN
              IF w2.err THEN FmtResult("FmtError", w2, seen)
              ELSE InlineFmtWhileGuarded(source[cause], w2, Append(seen, cause), fuel - 1)

\* the `while let Some(source) = cause` loop of InlineErrorChain's fmt
RECURSIVE InlineFmtWhile(_, _, _, _)
InlineFmtWhile(cause, w, seen, fuel) ==
    IF cause = None THEN FmtResult("Ok", w, seen)
    ELSE IF fuel = 0 THEN FmtResult("Running", w, seen)
    ELSE LET w1 == WriteStr(w, Sep) IN
         IF w1.err THEN FmtResult("FmtError", w1, seen)
         ELSE LET w2 == WriteStr(w1, display[cause]) IN
              IF w2.err THEN FmtResult("FmtError", w2, seen)
              ELSE InlineFmtWhile(source[cause], w2, Append(seen, cause), fuel - 1)

\* impl fmt::Display for InlineErrorChain
InlineErrorChainFmt(self, w) ==
    LET w1 == WriteStr(w, display[self.err]) IN
    IF w1.err THEN FmtResult("FmtError", w1, <<>>)
    ELSE InlineFmtWhile(source[self.err], w1, <<self.err>>, Fuel)

\* -------------------------------------------------------- OwnedErrorChain

\* a slip of the loop below: each cause is put in front of the ones found
\* before it
RECURSIVE OwnedNewWhilePrepend(_, _, _, _)
OwnedNewWhilePrepend(src, causes, seen, fuel) ==
    IF src = None THEN [done |-> TRUE, causes |-> causes, visited |-> seen]
    ELSE IF fuel = 0 THEN [done |-> FALSE, causes |-> causes, visited |-> seen]
    ELSE OwnedNewWhilePrepend(source[src], <<display[src]>> \o causes,
                              Append(seen, src), fuel - 1)

\* a slip of the loop below: `source = cause.source()` is missing, so the
\* loop stays on the first cause
RECURSIVE OwnedNewWhileStuck(_, _, _, _)
OwnedNewWhileStuck(src, causes, seen, fuel) ==
    IF src = None THEN [done |-> TRUE, causes |-> causes, visited |-> seen]
    ELSE IF fuel = 0 THEN [done |-> FALSE, causes |-> causes, visited |-> seen]
    ELSE OwnedNewWhileStuck(src, Append(causes, display[src]), Append(seen, src), fuel - 1)

\* the `while let Some(cause) = source` loop of OwnedErrorChain::new
RECURSIVE OwnedNewWhile(_, _, _, _)
OwnedNewWhile(src, causes, seen, fuel) ==
    IF src = None THEN [done |-> TRUE, causes |-> causes, visited |-> seen]
    ELSE IF fuel = 0 THEN [done |-> FALSE, causes |-> causes, visited |-> seen]
    ELSE OwnedNewWhile(source[src], Append(causes, display[src]), Append(seen, src), fuel - 1)

\* OwnedErrorChain::new: the strings are copied out of the errors
OwnedErrorChainNew(err) ==
    LET r == OwnedNewWhile(source[err], <<>>, <<err>>, Fuel) IN
    [done |-> r.done, visited |-> r.visited,
     chain |-> [ty |-> "OwnedErrorChain", first |-> display[err], rest |-> r.causes]]

\* a slip of the loop below: ", " for ": "
RECURSIVE OwnedFmtForComma(_, _, _)
OwnedFmtForComma(rest, i, w) ==
    IF i > Len(rest) THEN FmtResult("Ok", w, <<>>)
    ELSE LET w1 == WriteStr(w, ", ") IN
         IF w1.err THEN FmtResult("FmtError", w1, <<>>)
         ELSE LET w2 == WriteStr(w1, rest[i]) IN
              IF w2.err THEN FmtResult("FmtError", w2, <<>>)
              ELSE OwnedFmtForComma(rest, i + 1, w2)

\* the `for source in &self.rest` loop of OwnedErrorChain's fmt
RECURSIVE OwnedFmtFor(_, _, _)
OwnedFmtFor(rest, i, w) ==
    IF i > Len(rest) THEN FmtResult("Ok", w, <<>>)
    ELSE LET w1 == WriteStr(w, Sep) IN
         IF w1.err THEN FmtResult("FmtError", w1, <<>>)
         ELSE LET w2 == WriteStr(w1, rest[i]) IN
              IF w2.err THEN FmtResult("FmtError", w2, <<>>)
              ELSE OwnedFmtFor(rest, i + 1, w2)

\* a slip of the impl below: the chain keeps a reference to the error and
\* formats what the error displays when it is rendered
OwnedErrorChainFmtBorrowed(self, w) ==
    InlineErrorChainFmt(InlineErrorChainNew(Root), w)

\* impl fmt::Display for OwnedErrorChain
OwnedErrorChainFmt(self, w) ==
    LET w1 == WriteStr(w, self.first) IN
    IF w1.err THEN FmtResult("FmtError", w1, <<>>)
    ELSE OwnedFmtFor(self.rest, 1, w1)

\* ------------------------------------------------ serde::ser::SerializeSeq

\* a serde serializer over a destination that accepts `budget` more calls;
\* declared is the length given to serialize_seq: <<>> is None, <<k>> Some(k)
NewSerializer(budget) ==
    [elems |-> <<>>, declared |-> <<>>, open |-> FALSE, ended |-> FALSE,
     budget |-> budget, err |-> FALSE]

\* Serializer::serialize_seq(len)
SerializeSeq(s, len) ==
    IF s.budget = 0
    THEN [s EXCEPT !.err = TRUE]
    ELSE [s EXCEPT !.open = TRUE, !.declared = len, !.budget = @ - 1]

\* SerializeSeq::serialize_element of a string
SerializeElement(s, x) ==
    IF s.budget = 0
    THEN [s EXCEPT !.err = TRUE]
    ELSE [s EXCEPT !.elems = Append(@, x), !.budget = @ - 1]

\* SerializeSeq::end
SeqEnd(s) ==
    IF s.budget = 0
    THEN [s EXCEPT !.err = TRUE]
    ELSE [s EXCEPT !.ended = TRUE, !.budget = @ - 1]

\* the result of a serde serialize call: res is "Ok", "SerError" or "Running"
SerResult(res, s, seen) == [res |-> res, ser |-> s, visited |-> seen]

\* the `for s in &self.rest` loop and the seq.end() of OwnedErrorChain's
\* serialize
RECURSIVE OwnedSerializeFor(_, _, _)
OwnedSerializeFor(rest, i, s) ==
    IF i > Len(rest)
    THEN LET s1 == SeqEnd(s) IN
         SerResult(IF s1.err THEN "SerError" ELSE "Ok", s1, <<>>)
    ELSE LET s1 == SerializeElement(s, rest[i]) IN
         IF s1.err THEN SerResult("SerError", s1, <<>>)
         ELSE OwnedSerializeFor(rest, i + 1, s1)

\* a slip of the impl below: the declared length leaves out `first`
OwnedErrorChainSerializeShortLen(self, s) ==
    LET s1 == SerializeSeq(s, <<Len(self.rest)>>) IN
    IF s1.err THEN SerResult("SerError", s1, <<>>)
    ELSE LET s2 == SerializeElement(s1, self.first) IN
         IF s2.err THEN SerResult("SerError", s2, <<>>)
         ELSE OwnedSerializeFor(self.rest, 1, s2)

\* impl Serialize for OwnedErrorChain
OwnedErrorChainSerialize(self, s) ==
    LET s1 == SerializeSeq(s, <<1 + Len(self.rest)>>) IN
    IF s1.err THEN SerResult("SerError", s1, <<>>)
    ELSE LET s2 == SerializeElement(s1, self.first) IN
         IF s2.err THEN SerResult("SerError", s2, <<>>)
         ELSE OwnedSerializeFor(self.rest, 1, s2)

\* -------------------------------------------------------- ArrayErrorChain

\* ArrayErrorChain::new
ArrayErrorChainNew(err) == [ty |-> "ArrayErrorChain", err |-> err]

\* impl fmt::Display for ArrayErrorChain
ArrayErrorChainFmt(self, w) ==
    InlineErrorChainFmt(InlineErrorChainNew(self.err), w)

\* the `while let Some(cause) = source` loop and the seq.end() of
\* ArrayErrorChain's serialize
RECURSIVE ArraySerializeWhile(_, _, _, _)
ArraySerializeWhile(src, s, seen, fuel) ==
    IF src = None
    THEN LET s1 == SeqEnd(s) IN
         SerResult(IF s1.err THEN "SerError" ELSE "Ok", s1, seen)
    ELSE IF fuel = 0 THEN SerResult("Running", s, seen)
    ELSE LET s1 == SerializeElement(s, display[src]) IN
         IF s1.err THEN SerResult("SerError", s1, seen)
         ELSE ArraySerializeWhile(source[src], s1, Append(seen, src), fuel - 1)

\* a slip of the impl below: the error itself is not serialized, only its
\* causes
ArrayErrorChainSerializeCausesOnly(self, s) ==
    LET s1 == SerializeSeq(s, <<>>) IN
    IF s1.err THEN SerResult("SerError", s1, <<>>)
    ELSE ArraySerializeWhile(source[self.err], s1, <<self.err>>, Fuel)

\* impl Serialize for ArrayErrorChain
ArrayErrorChainSerialize(self, s) ==
    LET s1 == SerializeSeq(s, <<>>) IN
    IF s1.err THEN SerResult("SerError", s1, <<>>)
    ELSE LET s2 == SerializeElement(s1, display[self.err]) IN
         IF s2.err THEN SerResult("SerError", s2, <<>>)
         ELSE ArraySerializeWhile(source[self.err], s2, <<self.err>>, Fuel)

\* -------------------------------------------------------- slog::Serializer

\* the implicit key of a chain logged without one: "error".into()
ErrorKey == "error"

\* what a call leaves behind: its result, the String of to_string, the
\* pieces written to the formatter, the plain-text and the structured
\* emissions its sink received, the emit calls made on the sink (who made
\* them, what each returned) and the errors the walk went through
Outcome(res, out, pieces, text, seqs, emits, visited) ==
    [res |-> res, out |-> out, pieces |-> pieces, text |-> text, seqs |-> seqs,
     emits |-> emits, visited |-> visited]

\* `{self}` in format_args!: the Display impl of the value
DisplayFmt(v, w) ==
    CASE v.ty = "InlineErrorChain" -> InlineErrorChainFmt(v, w)
      [] v.ty = "ArrayErrorChain" -> ArrayErrorChainFmt(v, w)
      [] v.ty = "OwnedErrorChain" -> OwnedErrorChainFmt(v, w)

\* SerdeValue::as_serde followed by erased_serialize: the Serialize impl
AsSerdeSerialize(v, s) ==
    CASE v.ty = "ArrayErrorChain" -> ArrayErrorChainSerialize(v, s)
      [] v.ty = "OwnedErrorChain" -> OwnedErrorChainSerialize(v, s)

\* Serializer::emit_arguments(key, &format_args!("{self}")), called by `by`:
\* the sink formats the value into its destination and reports its own
\* failure when the destination refuses a write
EmitArguments(sink, key, v, by) ==
    LET d == DisplayFmt(v, NewFormatter(sink.budget))
        res == IF d.res = "FmtError" THEN sink.errval ELSE d.res
    IN Outcome(res, "", d.f.pieces,
               << [key |-> key, val |-> d.f.buf] >>, <<>>,
               << [by |-> by, op |-> "emit_arguments", key |-> key, res |-> res] >>,
               d.visited)

\* a slip of the impl below: the sink's failure is dropped (`let _ =`)
ArrayErrorChainSerializeFallbackSwallow(self, key, sink) ==
    [EmitArguments(sink, key, self, "serialize_fallback") EXCEPT !.res = "Ok"]

\* SerdeValue::serialize_fallback of ArrayErrorChain
ArrayErrorChainSerializeFallback(self, key, sink) ==
    EmitArguments(sink, key, self, "serialize_fallback")

\* SerdeValue::serialize_fallback of OwnedErrorChain
OwnedErrorChainSerializeFallback(self, key, sink) ==
    EmitArguments(sink, key, self, "serialize_fallback")

\* value.serialize_fallback(key, serializer) on a dyn SerdeValue
SerializeFallbackOf(v, key, sink) ==
    CASE v.ty = "ArrayErrorChain" -> ArrayErrorChainSerializeFallback(v, key, sink)
      [] v.ty = "OwnedErrorChain" -> OwnedErrorChainSerializeFallback(v, key, sink)

\* Serializer::emit_serde(key, value), called by `by`: a sink with nested
\* values serializes the value with serde (the tests' StringSerializer), any
\* other sink hands the call back to the value's serialize_fallback
EmitSerde(sink, key, v, by) ==
    IF sink.mode = "nested"
    THEN LET r == AsSerdeSerialize(v, NewSerializer(sink.budget))
             res == IF r.res = "SerError" THEN sink.errval ELSE r.res
         IN Outcome(res, "", <<>>, <<>>,
                    << [key |-> key, elems |-> r.ser.elems,
                        declared |-> r.ser.declared, ended |-> r.ser.ended] >>,
                    << [by |-> by, op |-> "emit_serde", key |-> key, res |-> res] >>,
                    r.visited)
    ELSE LET fb == SerializeFallbackOf(v, key, sink) IN
         [fb EXCEPT !.emits = Append(@, [by |-> by, op |-> "emit_serde",
                                         key |-> key, res |-> fb.res])]

\* impl KV for InlineErrorChain
InlineErrorChainKVSerialize(self, sink) ==
    EmitArguments(sink, ErrorKey, self, "KV::serialize")

\* a slip of the impl below: the caller's key is ignored
InlineErrorChainValueSerializeFixedKey(self, key, sink) ==
    EmitArguments(sink, ErrorKey, self, "Value::serialize")

\* impl Value for InlineErrorChain
InlineErrorChainValueSerialize(self, key, sink) ==
    EmitArguments(sink, key, self, "Value::serialize")

\* impl KV for ArrayErrorChain
ArrayErrorChainKVSerialize(self, sink) ==
    EmitSerde(sink, ErrorKey, self, "KV::serialize")

\* a slip of the impl below: emit_arguments, as InlineErrorChain does, for
\* emit_serde
ArrayErrorChainValueSerializeInline(self, key, sink) ==
    EmitArguments(sink, key, self, "Value::serialize")

\* impl Value for ArrayErrorChain
ArrayErrorChainValueSerialize(self, key, sink) ==
    EmitSerde(sink, key, self, "Value::serialize")

\* impl KV for OwnedErrorChain
OwnedErrorChainKVSerialize(self, sink) ==
    EmitSerde(sink, ErrorKey, self, "KV::serialize")

\* impl Value for OwnedErrorChain
OwnedErrorChainValueSerialize(self, key, sink) ==
    EmitSerde(sink, key, self, "Value::serialize")

\* SerdeValue::to_sendable of ArrayErrorChain: Box::new(OwnedErrorChain::new)
ArrayErrorChainToSendable(self) == OwnedErrorChainNew(self.err).chain

\* SerdeValue::to_sendable of OwnedErrorChain: Box::new(self.clone())
OwnedErrorChainToSendable(self) == self

\* KV::serialize on any of the three adapters
KVSerializeOf(v, sink) ==
    CASE v.ty = "InlineErrorChain" -> InlineErrorChainKVSerialize(v, sink)
      [] v.ty = "ArrayErrorChain" -> ArrayErrorChainKVSerialize(v, sink)
      [] v.ty = "OwnedErrorChain" -> OwnedErrorChainKVSerialize(v, sink)

\* Value::serialize on any of the three adapters
ValueSerializeOf(v, key, sink) ==
    CASE v.ty = "InlineErrorChain" -> InlineErrorChainValueSerialize(v, key, sink)
      [] v.ty = "ArrayErrorChain" -> ArrayErrorChainValueSerialize(v, key, sink)
      [] v.ty = "OwnedErrorChain" -> OwnedErrorChainValueSerialize(v, key, sink)

\* to_sendable on either SerdeValue
ToSendableOf(v) ==
    CASE v.ty = "ArrayErrorChain" -> ArrayErrorChainToSendable(v)
      [] v.ty = "OwnedErrorChain" -> OwnedErrorChainToSendable(v)

\* ---------------------------------------------------------------- the heap

\* the errors of the chain
Errs == DOMAIN display

\* the three adapters, and the two that are SerdeValues
Adapters == {"InlineErrorChain", "ArrayErrorChain", "OwnedErrorChain"}
SerdeValues == {"ArrayErrorChain", "OwnedErrorChain"}

\* the adapter a call is made on: a borrowed view of the error, or the
\* OwnedErrorChain the caller holds
Adapter(ty) ==
    CASE ty = "InlineErrorChain" -> InlineErrorChainNew(Root)
      [] ty = "ArrayErrorChain" -> ArrayErrorChainNew(Root)
      [] ty = "OwnedErrorChain" -> chain[1]

\* a borrowed view needs the error to be alive, an owned chain to exist
Usable(ty) == IF ty = "OwnedErrorChain" THEN chain # <<>> ELSE live

\* no call is on record: the last result and its sink have been dropped
Idle == call.api = "none"

\* the record of a call; nth counts how often it was made in a row
Call(thread, api, ty, key, sink) ==
    [thread |-> thread, api |-> api, ty |-> ty, key |-> key, sink |-> sink,
     nth |-> 1]

\* the caller may make a call: nothing is on record, or that very call is
\* and is made once more (with a fresh sink of the same kind)
Ready(api, ty, key, sink) ==
    \/ Idle
    \/ /\ call.nth < MaxRepeat
       /\ call.thread = "caller" /\ call.api = api /\ call.ty = ty
       /\ call.key = key /\ call.sink = sink

\* the record after call c was made
Made(c) == IF Idle THEN c ELSE [call EXCEPT !.nth = @ + 1]

\* before any call
NoCall == Call("none", "none", "none", "", StringSink)
NoOutcome == Outcome("none", "", <<>>, <<>>, <<>>, <<>>, <<>>)

\* the chains the model starts from: 1 -> 2 -> ... -> n, any display strings
Init ==
    /\ \E n \in 1..MaxErr :
          /\ display \in [1..n -> Msgs]
          /\ source = [e \in 1..n |-> IF e < n THEN e + 1 ELSE None]
    /\ live = TRUE
    /\ mutations = 0
    /\ chain = <<>>
    /\ chainAt = <<>>
    /\ sent = <<>>
    /\ sentAt = <<>>
    /\ call = NoCall
    /\ ret = NoOutcome

\* chains whose last error names an error of the chain as its source: a
\* cycle, which Error::source() does not exclude
InitCyclic ==
    /\ \E n \in 1..MaxErr, back \in 1..MaxErr :
          /\ back <= n
          /\ display \in [1..n -> Msgs]
          /\ source = [e \in 1..n |-> IF e < n THEN e + 1 ELSE back]
    /\ live = TRUE
    /\ mutations = 0
    /\ chain = <<>>
    /\ chainAt = <<>>
    /\ sent = <<>>
    /\ sentAt = <<>>
    /\ call = NoCall
    /\ ret = NoOutcome

\* ------------------------------------------------------ the caller's calls

\* let chain = OwnedErrorChain::new(&err)
OwnedNew ==
    /\ Ready("new", "OwnedErrorChain", "", StringSink)
    /\ live
    /\ LET r == OwnedErrorChainNew(Root) IN
       /\ chain' = IF r.done THEN << r.chain >> ELSE chain
       /\ chainAt' = IF r.done THEN << [display |-> display, source |-> source] >>
                     ELSE chainAt
       /\ call' = Made(Call("caller", "new", "OwnedErrorChain", "", StringSink))
       /\ ret' = Outcome(IF r.done THEN "Ok" ELSE "Running", "", <<>>, <<>>, <<>>,
                         <<>>, r.visited)
    /\ UNCHANGED <<heap, sent, sentAt>>

\* a slip of the call below: formatting an owned chain drains its `rest`
\* (a consuming iterator), so the chain is left with `first` alone
AdapterToStringDraining(ty) ==
    /\ Ready("to_string", ty, "", StringSink)
    /\ Usable(ty)
    /\ LET r == DisplayFmt(Adapter(ty), NewFormatter(StringSink.budget)) IN
       /\ call' = Made(Call("caller", "to_string", ty, "", StringSink))
       /\ ret' = Outcome(r.res, r.f.buf, r.f.pieces, <<>>, <<>>, <<>>, r.visited)
    /\ chain' = IF ty = "OwnedErrorChain"
                THEN << [chain[1] EXCEPT !.rest = <<>>] >> ELSE chain
    /\ UNCHANGED <<heap, chainAt, sent, sentAt>>

\* adapter.to_string(): Display into a String
AdapterToString(ty) ==
    /\ Ready("to_string", ty, "", StringSink)
    /\ Usable(ty)
    /\ LET r == DisplayFmt(Adapter(ty), NewFormatter(StringSink.budget)) IN
       /\ call' = Made(Call("caller", "to_string", ty, "", StringSink))
       /\ ret' = Outcome(r.res, r.f.buf, r.f.pieces, <<>>, <<>>, <<>>, r.visited)
    /\ UNCHANGED <<heap, chain, chainAt, sent, sentAt>>

\* KV::serialize(&adapter, record, serializer): logged without a key
KVSerialize(ty, sink) ==
    /\ Ready("KV::serialize", ty, "", sink)
    /\ Usable(ty)
    /\ call' = Made(Call("caller", "KV::serialize", ty, "", sink))
    /\ ret' = KVSerializeOf(Adapter(ty), sink)
    /\ UNCHANGED <<heap, chain, chainAt, sent, sentAt>>

\* Value::serialize(&adapter, record, key, serializer): logged under a key
ValueSerialize(ty, key, sink) ==
    /\ Ready("Value::serialize", ty, key, sink)
    /\ Usable(ty)
    /\ call' = Made(Call("caller", "Value::serialize", ty, key, sink))
    /\ ret' = ValueSerializeOf(Adapter(ty), key, sink)
    /\ UNCHANGED <<heap, chain, chainAt, sent, sentAt>>

\* adapter.serialize_fallback(key, serializer)
SerializeFallback(ty, key, sink) ==
    /\ Ready("serialize_fallback", ty, key, sink)
    /\ Usable(ty)
    /\ call' = Made(Call("caller", "serialize_fallback", ty, key, sink))
    /\ ret' = SerializeFallbackOf(Adapter(ty), key, sink)
    /\ UNCHANGED <<heap, chain, chainAt, sent, sentAt>>

\* adapter.serialize(serializer): serde's Serialize, as the derived
\* Serialize impl of SlogArrayError calls it
Serialize(ty, sink) ==
    /\ Ready("Serialize::serialize", ty, "", sink)
    /\ Usable(ty)
    /\ sink.mode = "nested"
    /\ LET r == AsSerdeSerialize(Adapter(ty), NewSerializer(sink.budget)) IN
       /\ call' = Made(Call("caller", "Serialize::serialize", ty, "", sink))
       /\ ret' = Outcome(r.res, "", <<>>, <<>>,
                         << [key |-> "", elems |-> r.ser.elems,
                             declared |-> r.ser.declared, ended |-> r.ser.ended] >>,
                         <<>>, r.visited)
    /\ UNCHANGED <<heap, chain, chainAt, sent, sentAt>>

\* the result and the sink of the last call go out of scope
Discard ==
    /\ ~Idle
    /\ call' = NoCall
    /\ ret' = NoOutcome
    /\ UNCHANGED <<heap, chain, chainAt, sent, sentAt>>

\* ------------------------------------------- handing a chain to a worker

\* adapter.to_sendable(): the boxed owned chain goes to the worker thread
ToSendable(ty) ==
    /\ Idle
    /\ Usable(ty)
    /\ sent' = << ToSendableOf(Adapter(ty)) >>
    /\ sentAt' = IF ty = "OwnedErrorChain" THEN chainAt
                 ELSE << [display |-> display, source |-> source] >>
    /\ UNCHANGED <<heap, chain, chainAt, call, ret>>

\* the caller changes what an error of the chain displays
MutateError(e, m) ==
    /\ live
    /\ mutations < MaxMutations
    /\ display[e] # m
    /\ display' = [display EXCEPT ![e] = m]
    /\ mutations' = mutations + 1
    /\ UNCHANGED <<source, live, chain, chainAt, sent, sentAt, call, ret>>

\* the caller drops the error: no borrowed view of it can be made any more
DropError ==
    /\ live
    /\ live' = FALSE
    /\ UNCHANGED <<display, source, mutations, chain, chainAt, sent, sentAt, call, ret>>

\* the worker formats the chain it was sent; the call reads nothing but the
\* strings the box owns, so it is one step whatever the caller does meanwhile
WorkerToString ==
    /\ Idle
    /\ sent # <<>>
    /\ LET r == DisplayFmt(sent[1], NewFormatter(StringSink.budget)) IN
       /\ call' = Call("worker", "to_string", "OwnedErrorChain", "", StringSink)
       /\ ret' = Outcome(r.res, r.f.buf, r.f.pieces, <<>>, <<>>, <<>>, r.visited)
    /\ UNCHANGED <<heap, chain, chainAt, sent, sentAt>>

\* the worker's drain logs the chain it was sent: serializer.emit_serde
WorkerEmitSerde(key, mode) ==
    /\ Idle
    /\ sent # <<>>
    /\ LET sink == [StringSink EXCEPT !.mode = mode] IN
       /\ call' = Call("worker", "emit_serde", "OwnedErrorChain", key, sink)
       /\ ret' = EmitSerde(sink, key, sent[1], "worker")
    /\ UNCHANGED <<heap, chain, chainAt, sent, sentAt>>

\* ------------------------------------------------------ the specifications

\* the arguments a call can be made with now: any when nothing is on
\* record, those of the call on record when there is one (Ready lets no
\* other call through)
TysNow(S) == IF Idle THEN S ELSE S \cap {call.ty}
KeysNow == IF Idle THEN Keys ELSE Keys \cap {call.key}
SinksNow == IF Idle THEN Sinks ELSE Sinks \cap {call.sink}

\* the calls a caller makes on an error it keeps unchanged
Next ==
    \/ OwnedNew
    \/ \E ty \in TysNow(Adapters) : AdapterToString(ty)
    \/ \E ty \in TysNow(Adapters), sink \in SinksNow : KVSerialize(ty, sink)
    \/ \E ty \in TysNow(Adapters), key \in KeysNow, sink \in SinksNow :
          ValueSerialize(ty, key, sink)
    \/ \E ty \in TysNow(SerdeValues), key \in KeysNow, sink \in SinksNow :
          SerializeFallback(ty, key, sink)
    \/ \E ty \in TysNow(SerdeValues), sink \in SinksNow : Serialize(ty, sink)
    \/ Discard

Spec == Init /\ [][Next]_vars

\* the same calls on a chain with a cycle
SpecCyclic == InitCyclic /\ [][Next]_vars

\* a chain is built, sent to a worker and rendered there while the caller
\* changes or drops the error
NextSend ==
    \/ OwnedNew
    \/ \E ty \in SerdeValues : ToSendable(ty)
    \/ \E e \in Errs, m \in Msgs : MutateError(e, m)
    \/ DropError
    \/ WorkerToString
    \/ \E key \in Keys, mode \in SinkModes : WorkerEmitSerde(key, mode)
    \/ Discard

SpecSend == Init /\ [][NextSend]_vars

\* ------------------------------------------------ what the claims refer to

\* the error heap as it is now
Now == [display |-> display, source |-> source]

\* following source from e ends within k steps
RECURSIVE EndsWithin(_, _, _)
EndsWithin(src, e, k) ==
    IF e = None THEN TRUE
    ELSE IF k = 0 THEN FALSE
    ELSE EndsWithin(src, src[e], k - 1)

\* the chain from e has no cycle
Acyclic(h, e) == EndsWithin(h.source, e, Len(h.source))

\* the chain e, cause(e), cause(cause(e)), ... up to the first error with
\* no cause
RECURSIVE ChainOf(_, _)
ChainOf(h, e) ==
    <<e>> \o (IF h.source[e] = None THEN <<>> ELSE ChainOf(h, h.source[e]))

\* [display(e0), ..., display(en)]
DisplaysOf(h, e) ==
    LET c == ChainOf(h, e) IN [i \in 1..Len(c) |-> h.display[c[i]]]

\* render(e) == display(e) if e has no cause, else
\* display(e) + ": " + render(cause(e))
RECURSIVE Render(_, _)
Render(h, e) ==
    IF h.source[e] = None THEN h.display[e]
    ELSE h.display[e] \o ": " \o Render(h, h.source[e])

\* the number of separators among the pieces written
Separators(pieces) == Cardinality({i \in 1..Len(pieces) : pieces[i] = ": "})

\* the call on record was made by `thread` through `api` on adapter `ty`
Called(thread, api, ty) ==
    call.thread = thread /\ call.api = api /\ call.ty = ty

\* the destination of the call on record accepts every write
Unlimited == call.sink.budget >= WriteLimit

\* the owned chain the caller holds was built from the error as it is now
Fresh == chainAt = << Now >>

\* C1 -- For an acyclic chain e0 -> ... -> en the Display output of
\* InlineErrorChain::new(e0) is the display strings of e0..en joined by
\* ": " in root-to-deepest order: exactly n separators are written, none
\* first and none last, and for n = 0 the output is display(e0).
C1_InlineJoinsChain ==
    (Called("caller", "to_string", "InlineErrorChain") /\ Acyclic(Now, Root)) =>
        LET n == Len(ChainOf(Now, Root)) - 1 IN
        /\ ret.res = "Ok"
        /\ ret.out = Render(Now, Root)
        /\ Len(ret.pieces) = 2 * n + 1
        /\ Separators(ret.pieces) = n
        /\ \A i \in 1..Len(ret.pieces) : (ret.pieces[i] = ": ") <=> (i % 2 = 0)
        /\ (n = 0 => ret.out = display[Root])

C1_Witness ==
    /\ Called("caller", "to_string", "InlineErrorChain")
    /\ Len(display) = 3
    /\ ret.out = "error b: error a: test error"

\* C2 -- For an acyclic chain e0 -> ... -> en the serde serialization of
\* ArrayErrorChain::new(e0) emits, to a serializer that accepts it, a
\* sequence of exactly n+1 strings, the i-th being display(ei), and then
\* ends the sequence; the sequence is never empty.
C2_ArraySerializesChain ==
    (/\ call.thread = "caller" /\ call.ty = "ArrayErrorChain"
     /\ \/ call.api = "Serialize::serialize"
        \/ call.api \in {"KV::serialize", "Value::serialize"} /\ call.sink.mode = "nested"
     /\ Unlimited
     /\ Acyclic(Now, Root)) =>
        /\ ret.res = "Ok"
        /\ Len(ret.seqs) = 1
        /\ ret.seqs[1].elems = DisplaysOf(Now, Root)
        /\ Len(ret.seqs[1].elems) = Len(ChainOf(Now, Root))
        /\ ret.seqs[1].elems # <<>>
        /\ ret.seqs[1].ended

C2_Witness ==
    /\ Called("caller", "Value::serialize", "ArrayErrorChain")
    /\ call.sink.mode = "nested"
    /\ ret.res = "Ok"
    /\ ret.seqs[1].elems = <<"error b", "error a", "test error">>
    /\ ret.seqs[1].ended

\* the Display output of InlineErrorChain on the error as it is now, into a
\* destination that accepts `budget` writes
InlineDisplay(budget) ==
    InlineErrorChainFmt(InlineErrorChainNew(Root), NewFormatter(budget)).f.buf

\* C3 -- The string serialize_fallback of ArrayErrorChain, and of the
\* OwnedErrorChain built from the same error, passes to the plain-text sink
\* is the Display output of InlineErrorChain on that error, whatever the
\* sink accepts.
C3_FallbackIsInline ==
    (/\ call.thread = "caller" /\ call.api = "serialize_fallback"
     /\ call.ty \in SerdeValues
     /\ Fresh \/ call.ty = "ArrayErrorChain") =>
        /\ Len(ret.text) = 1
        /\ ret.seqs = <<>>
        /\ ret.text[1].val = InlineDisplay(call.sink.budget)
        /\ Unlimited => ret.res = "Ok" /\ ret.text[1].val = InlineDisplay(WriteLimit)

C3_Witness ==
    /\ Called("caller", "serialize_fallback", "OwnedErrorChain")
    /\ Fresh
    /\ ret.res = "Ok"
    /\ ret.text[1].val = "error a: test error"

\* C4 -- For an acyclic chain rooted at e0 the Display output of
\* OwnedErrorChain::new(e0) is the Display output of InlineErrorChain::new(e0)
\* computed from the live error.
C4_OwnedDisplayIsInline ==
    (Called("caller", "to_string", "OwnedErrorChain") /\ Fresh /\ live
     /\ Acyclic(Now, Root)) =>
        /\ ret.res = "Ok"
        /\ ret.out = InlineDisplay(WriteLimit)

C4_Witness ==
    /\ Called("caller", "to_string", "OwnedErrorChain")
    /\ Fresh /\ live
    /\ Len(display) = 3
    /\ ret.out = "error b: error a: test error"

\* what ArrayErrorChain's serialize emits for the error as it is now
ArrayElems ==
    ArrayErrorChainSerialize(ArrayErrorChainNew(Root), NewSerializer(WriteLimit)).ser.elems

\* C5 -- For an acyclic chain e0 -> ... -> en, n = 0 included,
\* OwnedErrorChain::new(e0) completes and its serde serialization emits
\* [display(e0), ..., display(en)], the sequence ArrayErrorChain emits; the
\* declared length 1 + rest.len() is n+1, the number of elements emitted,
\* and the least output is [display(e0)].
C5_OwnedSerializesChain ==
    /\ (Called("caller", "new", "OwnedErrorChain") /\ Acyclic(Now, Root)) =>
          /\ ret.res = "Ok"
          /\ chain # <<>>
          /\ 1 + Len(chain[1].rest) = Len(ChainOf(Now, Root))
    /\ (/\ call.thread = "caller" /\ call.ty = "OwnedErrorChain"
        /\ \/ call.api = "Serialize::serialize"
           \/ call.api \in {"KV::serialize", "Value::serialize"} /\ call.sink.mode = "nested"
        /\ Unlimited /\ Fresh /\ Acyclic(Now, Root)) =>
          LET s == ret.seqs[1] IN
          /\ ret.res = "Ok"
          /\ Len(ret.seqs) = 1
          /\ s.elems = DisplaysOf(Now, Root)
          /\ s.elems = ArrayElems
          /\ s.declared = << Len(ChainOf(Now, Root)) >>
          /\ s.declared = << Len(s.elems) >>
          /\ Len(s.elems) >= 1
          /\ s.ended
          /\ (source[Root] = None => s.elems = << display[Root] >>)

C5_Witness ==
    /\ Called("caller", "Serialize::serialize", "OwnedErrorChain")
    /\ Unlimited /\ Fresh
    /\ source[Root] = None
    /\ ret.res = "Ok"
    /\ ret.seqs[1].elems = <<"test error">>
    /\ ret.seqs[1].declared = <<1>>

\* C6 -- An ArrayErrorChain or OwnedErrorChain logged with Value::serialize
\* to a sink without structured values (its emit_serde calls the value's
\* serialize_fallback) gives the sink one plain-text emission, the inline
\* ": "-joined string, and no sequence; a sink with structured values gets
\* the array and no inline string.
C6_FallbackNeverArray ==
    (/\ call.thread = "caller" /\ call.api = "Value::serialize"
     /\ call.ty \in SerdeValues
     /\ Fresh \/ call.ty = "ArrayErrorChain"
     /\ Acyclic(Now, Root)) =>
        /\ call.sink.mode = "plain" =>
              /\ ret.seqs = <<>>
              /\ Len(ret.text) = 1
              /\ Unlimited => ret.res = "Ok" /\ ret.text[1].val = Render(Now, Root)
        /\ call.sink.mode = "nested" =>
              /\ ret.text = <<>>
              /\ Len(ret.seqs) = 1
              /\ Unlimited => ret.res = "Ok" /\ ret.seqs[1].elems = DisplaysOf(Now, Root)

C6_Witness ==
    /\ Called("caller", "Value::serialize", "ArrayErrorChain")
    /\ call.sink.mode = "plain"
    /\ ret.res = "Ok"
    /\ ret.seqs = <<>>
    /\ Len(ret.text) = 1
    /\ ret.text[1].val = "error b: error a: test error"

\* the keys the sink was handed during the call on record
KeysHanded ==
    {ret.emits[i].key : i \in 1..Len(ret.emits)}
        \cup {ret.text[i].key : i \in 1..Len(ret.text)}
        \cup {ret.seqs[i].key : i \in 1..Len(ret.seqs)}

\* what a call emitted, whatever the key
Rendering(o) ==
    [res |-> o.res,
     text |-> [i \in 1..Len(o.text) |-> o.text[i].val],
     seqs |-> [i \in 1..Len(o.seqs) |-> o.seqs[i].elems]]

\* C7 -- A chain logged without a key (KV::serialize) reaches the sink under
\* the key "error"; logged under a caller's key (Value::serialize) it
\* reaches the sink under exactly that key; the rendering emitted is the
\* same in both cases.
C7_ImplicitKeyIsError ==
    /\ (call.thread = "caller" /\ call.api = "KV::serialize") =>
          /\ KeysHanded = {"error"}
          /\ \A k \in Keys :
                Rendering(ret) = Rendering(ValueSerializeOf(Adapter(call.ty), k, call.sink))
    /\ (call.thread = "caller" /\ call.api = "Value::serialize") =>
          /\ KeysHanded = {call.key}
          /\ Rendering(ret) = Rendering(KVSerializeOf(Adapter(call.ty), call.sink))

C7_Witness ==
    /\ Called("caller", "Value::serialize", "InlineErrorChain")
    /\ call.key = "my-key"
    /\ ret.res = "Ok"
    /\ ret.text = << [key |-> "my-key", val |-> "error a: test error"] >>

\* C8 -- A sink failure is passed up unchanged and nothing is retried: each
\* serialize / serialize_fallback call makes one emit call on the sink and
\* returns what that emit call returned, the sink's own failure value when
\* it failed.
C8_SinkResultPassedUp ==
    (/\ call.thread = "caller"
     /\ call.api \in {"KV::serialize", "Value::serialize", "serialize_fallback"}) =>
        LET mine == {i \in 1..Len(ret.emits) : ret.emits[i].by = call.api} IN
        /\ Cardinality(mine) = 1
        /\ \A i \in mine : i = Len(ret.emits) /\ ret.emits[i].res = ret.res
        /\ \A i, j \in 1..Len(ret.emits) : ret.emits[i].by = ret.emits[j].by => i = j
        /\ \A i \in 1..Len(ret.emits) : ret.emits[i].res = ret.res
        /\ ret.res \in {"Ok", call.sink.errval}
        /\ Acyclic(Now, Root) /\ Unlimited => ret.res = "Ok"

C8_Witness ==
    /\ Called("caller", "Value::serialize", "ArrayErrorChain")
    /\ call.sink.mode = "plain"
    /\ call.sink.errval = "Io"
    /\ ret.res = "Io"
    /\ Len(ret.emits) = 2
    /\ ret.emits[1].res = "Io"

\* v is the beginning of c
IsPrefix(v, c) == Len(v) <= Len(c) /\ \A i \in 1..Len(v) : v[i] = c[i]

\* C9 -- On an acyclic chain of n+1 errors the walk of each renderer
\* (InlineErrorChain's Display, ArrayErrorChain's Serialize,
\* OwnedErrorChain::new) ends: it goes through e, cause(e), ... in that
\* order, each once, and stops at the first error with no cause, after n+1
\* errors; having no cause is not an error.
C9_WalkEndsAtLastCause ==
    (/\ call.thread = "caller"
     /\ call.ty \in {"InlineErrorChain", "ArrayErrorChain"} \/ call.api = "new"
     /\ Acyclic(Now, Root)) =>
        /\ ret.res # "Running"
        /\ IsPrefix(ret.visited, ChainOf(Now, Root))
        /\ ret.res = "Ok" =>
              /\ ret.visited = ChainOf(Now, Root)
              /\ Len(ret.visited) = Len(display)
              /\ source[ret.visited[Len(ret.visited)]] = None
        /\ Unlimited => ret.res = "Ok"

C9_Witness ==
    /\ Called("caller", "new", "OwnedErrorChain")
    /\ ret.res = "Ok"
    /\ ret.visited = <<1, 2, 3>>

\* the strings an owned chain holds
Held(c) == <<c.first>> \o c.rest

\* C10 -- An OwnedErrorChain, built by OwnedErrorChain::new or by
\* to_sendable, holds no reference to the error: however the error is
\* changed or dropped afterwards, what the worker renders from the chain it
\* was sent (display, fallback, structured) is the rendering of the error
\* as it was when the chain was built.
C10_OwnedChainDetached ==
    /\ chain # <<>> => Held(chain[1]) = DisplaysOf(chainAt[1], Root)
    /\ sent # <<>> => Held(sent[1]) = DisplaysOf(sentAt[1], Root)
    /\ call.thread = "worker" =>
          /\ ret.res = "Ok"
          /\ ret.visited = <<>>
          /\ call.api = "to_string" => ret.out = Render(sentAt[1], Root)
          /\ (call.api = "emit_serde" /\ call.sink.mode = "plain") =>
                Rendering(ret).text = << Render(sentAt[1], Root) >>
          /\ (call.api = "emit_serde" /\ call.sink.mode = "nested") =>
                Rendering(ret).seqs = << DisplaysOf(sentAt[1], Root) >>

C10_Witness ==
    /\ Called("worker", "to_string", "OwnedErrorChain")
    /\ ~live
    /\ mutations > 0
    /\ ret.out = Render(sentAt[1], Root)
    /\ ret.out # Render(Now, Root)

\* C11 -- Rendering is idempotent: a renderer (inline display, structured
\* serialization, fallback, owned snapshot construction) called again on
\* the same unchanged error gives the same output, and no render call
\* changes the error, the chain it is made on or anything the next call
\* reads.
C11_RenderingIsIdempotent ==
    [][call' # NoCall =>
          /\ display' = display /\ source' = source /\ live' = live
          /\ sent' = sent
          /\ call'.api # "new" => chain' = chain
          /\ call'.nth > 1 =>
                /\ [call' EXCEPT !.nth = 1] = [call EXCEPT !.nth = 1]
                /\ ret' = ret
                /\ chain' = chain]_vars

C11_Witness ==
    /\ Called("caller", "to_string", "OwnedErrorChain")
    /\ call.nth = 2
    /\ Fresh
    /\ ret.res = "Ok"
    /\ ret.out = "error b: error a: test error"

\* some error occurs twice in v
Revisits(v) == \E i, j \in 1..Len(v) : i < j /\ v[i] = v[j]

\* what the call on record returns when its destination refuses a write:
\* serde's error from Serialize::serialize, the sink's own from the rest
WriteFailure ==
    IF call.api = "Serialize::serialize" THEN "SerError" ELSE call.sink.errval

\* C12 -- No renderer detects a cycle in the chain of causes: when the
\* causes reachable from the root form a cycle, the walk of
\* InlineErrorChain's Display, of ArrayErrorChain's Serialize and of
\* OwnedErrorChain::new never reaches its end, going round the cycle and
\* writing or collecting one more element each time, unless the sink
\* reports a write failure first.
C12_CyclicWalkNeverEnds ==
    (/\ call.thread = "caller"
     /\ call.ty \in {"InlineErrorChain", "ArrayErrorChain"} \/ call.api = "new"
     /\ ~Acyclic(Now, Root)) =>
        /\ ret.res # "Ok"
        /\ ret.res \in {"Running", WriteFailure}
        /\ ret.res = WriteFailure => call.sink.budget <= WriteLimit
        /\ call.sink.budget = Unbounded => ret.res = "Running"
        /\ call.api = "new" => chain = <<>>
        /\ \A i \in 1..Len(ret.seqs) : ~ret.seqs[i].ended
        /\ ret.res = "Running" =>
              /\ Len(ret.visited) = Fuel + 1
              /\ Revisits(ret.visited)
              /\ \A i \in 1..Len(ret.text) : Len(ret.pieces) = 2 * Fuel + 1
              /\ call.api = "to_string" => Len(ret.pieces) = 2 * Fuel + 1
              /\ \A i \in 1..Len(ret.seqs) : Len(ret.seqs[i].elems) = Fuel + 1

C12_Witness ==
    /\ Called("caller", "to_string", "InlineErrorChain")
    /\ Len(display) = 2
    /\ source[2] = 1
    /\ ret.res = "Running"
    /\ Len(ret.visited) = Fuel + 1
    /\ Revisits(ret.visited)
====
